---- MODULE Spec2Model ----
(***************************************************************************)
(* sfdisk-sort-rs: parse an `sfdisk -d` dump, sort the partitions by start *)
(* block, renumber them, and print the dump again.                         *)
(*                                                                         *)
(* Text is modelled by TLA+ strings (Len, SubSeq and \o act on them), the  *)
(* regular expressions of the program by sequences of quantified character *)
(* classes matched leftmost-first with greedy backtracking, as the regex   *)
(* crate does for patterns of this shape.                                  *)
(***************************************************************************)
EXTENDS Integers, Sequences, FiniteSets, TLC

(***************************************************************************)
(* Bounds of the model.                                                    *)
(***************************************************************************)
\* Longest dump, in lines, among the dumps enumerated from LinePool.
MaxLines == 3

(***************************************************************************)
(* Characters and character classes.                                       *)
(***************************************************************************)
Digit == {"0", "1", "2", "3", "4", "5", "6", "7", "8", "9"}

Lower == {"a", "b", "c", "d", "e", "f", "g", "h", "i", "j", "k", "l", "m",
          "n", "o", "p", "q", "r", "s", "t", "u", "v", "w", "x", "y", "z"}

Upper == {"A", "B", "C", "D", "E", "F", "G", "H", "I", "J", "K", "L", "M",
          "N", "O", "P", "Q", "R", "S", "T", "U", "V", "W", "X", "Y", "Z"}

\* \w, \d and \s of the regex crate, restricted to the ASCII characters the
\* modelled dumps are written in.
WordChar == Lower \cup Upper \cup Digit \cup {"_"}

Space == {" ", "\t", "\r"}

CharAt(s, i) == SubSeq(s, i, i)

\* A class is a set of characters, or the complement of one.
In(set) == [neg |-> FALSE, set |-> set]

NotIn(set) == [neg |-> TRUE, set |-> set]

Matches(cls, ch) == (ch \in cls.set) # cls.neg

\* Atoms: a class with its quantifier.
One(cls) == [cls |-> cls, min |-> 1, many |-> FALSE]

Opt(cls) == [cls |-> cls, min |-> 0, many |-> FALSE]

Plus(cls) == [cls |-> cls, min |-> 1, many |-> TRUE]

Star(cls) == [cls |-> cls, min |-> 0, many |-> TRUE]

\* The atoms of a literal string.
RECURSIVE Lit(_)
Lit(s) ==
    IF s = "" THEN <<>> ELSE <<One(In({CharAt(s, 1)}))>> \o Lit(Tail(s))

\* `.` matches everything but a line feed.
Dot == NotIn({"\n"})

(***************************************************************************)
(* Matching.  A regex is [atoms, groups]; groups maps a capture name to    *)
(* the first and last atom of the group.                                   *)
(***************************************************************************)
NoMatch == [ok |-> FALSE, ends |-> <<>>]

\* Length of the longest run of characters of cls in s from position pos.
RECURSIVE RunLen(_, _, _)
RunLen(cls, s, pos) ==
    IF pos > Len(s) \/ ~Matches(cls, CharAt(s, pos))
    THEN 0
    ELSE 1 + RunLen(cls, s, pos + 1)

\* Match atoms k.. of `atoms` against s from pos; ends[j] is the position
\* after atom k+j-1.  A quantified atom takes as much as it can and
\* gives back one character at a time while the rest fails (greedy).
RECURSIVE MatchAt(_, _, _, _)
RECURSIVE TryLen(_, _, _, _, _)
MatchAt(atoms, k, s, pos) ==
    IF k > Len(atoms)
    THEN [ok |-> TRUE, ends |-> <<>>]
    ELSE LET a == atoms[k]
             run == RunLen(a.cls, s, pos)
             most == IF a.many THEN run ELSE IF run > 0 THEN 1 ELSE 0
         IN  TryLen(atoms, k, s, pos, most)

TryLen(atoms, k, s, pos, n) ==
    IF n < atoms[k].min
    THEN NoMatch
    ELSE LET rest == MatchAt(atoms, k + 1, s, pos + n)
         IN  IF rest.ok
             THEN [ok |-> TRUE, ends |-> <<pos + n>> \o rest.ends]
             ELSE TryLen(atoms, k, s, pos, n - 1)

\* Regex::captures: the leftmost match (unanchored search), or none.
RECURSIVE SearchFrom(_, _, _)
SearchFrom(atoms, s, start) ==
    IF start > Len(s) + 1
    THEN [ok |-> FALSE, start |-> 0, ends |-> <<>>]
    ELSE LET m == MatchAt(atoms, 1, s, start)
         IN  IF m.ok
             THEN [ok |-> TRUE, start |-> start, ends |-> m.ends]
             ELSE SearchFrom(atoms, s, start + 1)

Captures(re, s) == SearchFrom(re.atoms, s, 1)

\* Regex::is_match
IsMatch(re, s) == Captures(re, s).ok

\* Captures::name(g).as_str() of a match m of re in s.
Group(re, m, s, g) ==
    LET from == re.groups[g][1]
        to == re.groups[g][2]
        b == IF from = 1 THEN m.start ELSE m.ends[from - 1]
        e == m.ends[to]
    IN  SubSeq(s, b, e - 1)

(***************************************************************************)
(* linux/block.rs: the device families and their patterns.                 *)
(***************************************************************************)
LinuxBlockDevice == {"SCSI", "VIRT", "MMCBLK", "NVME"}

Ungrouped(atoms) == [atoms |-> atoms, groups |-> <<>>]

SCSI_REGEX == Ungrouped(Lit("sd") \o <<One(In(Lower))>>)

VIRT_REGEX == Ungrouped(Lit("vd") \o <<One(In(Lower))>>)

NVME_REGEX ==
    Ungrouped(Lit("nvme") \o <<Plus(In(Digit))>> \o Lit("n") \o <<Plus(In(Digit))>>)

\* Faulty variant: the pattern of a partition, with its 'p', taken for the disk's.
MMBCLK_REGEX_WithP == Ungrouped(Lit("mmcblk") \o <<Plus(In(Digit))>> \o Lit("p"))

MMBCLK_REGEX == Ungrouped(Lit("mmcblk") \o <<Plus(In(Digit))>>)

\* (?P<prefix>...)(?P<part_num>\d+)
PrefixAndNumber(prefix) ==
    [atoms |-> prefix \o <<Plus(In(Digit))>>,
     groups |-> [prefix |-> <<1, Len(prefix)>>,
                 part_num |-> <<Len(prefix) + 1, Len(prefix) + 1>>]]

SCSI_PART_REGEX == PrefixAndNumber(Lit("/dev/sd") \o <<One(In(Lower))>>)

VIRT_PART_REGEX == PrefixAndNumber(Lit("/dev/vd") \o <<One(In(Lower))>>)

NVME_PART_REGEX ==
    PrefixAndNumber(Lit("/dev/nvme") \o <<Plus(In(Digit))>> \o Lit("n")
                    \o <<Plus(In(Digit))>> \o Lit("p"))

\* Faulty variant: the 'p' before the partition number may be missing.
MMBCLK_PART_REGEX_OptionalP ==
    PrefixAndNumber(Lit("/dev/mmcblk") \o <<Plus(In(Digit)), Opt(In({"p"}))>>)

MMBCLK_PART_REGEX ==
    PrefixAndNumber(Lit("/dev/mmcblk") \o <<Plus(In(Digit))>> \o Lit("p"))

\* The two lazy_static maps, as functions of the family.
BLK_REGEX ==
    [f \in LinuxBlockDevice |->
        CASE f = "SCSI" -> SCSI_REGEX
          [] f = "VIRT" -> VIRT_REGEX
          [] f = "MMCBLK" -> MMBCLK_REGEX
          [] f = "NVME" -> NVME_REGEX]

BLK_PART_REGEX ==
    [f \in LinuxBlockDevice |->
        CASE f = "SCSI" -> SCSI_PART_REGEX
          [] f = "VIRT" -> VIRT_PART_REGEX
          [] f = "MMCBLK" -> MMBCLK_PART_REGEX
          [] f = "NVME" -> NVME_PART_REGEX]

\* The orders in which a HashMap of the four families can be iterated: the
\* map is hashed with keys drawn at random when the process first uses it,
\* so every permutation is an outcome.
IterationOrders ==
    {o \in [1..4 -> LinuxBlockDevice] : \A f \in LinuxBlockDevice : \E i \in 1..4 : o[i] = f}

NoFamily == "none"

\* linux_blk_name: the first family, in the map's iteration order, whose
\* pattern occurs in device_name.
RECURSIVE FirstMatching(_, _, _)
FirstMatching(order, device_name, i) ==
    IF i > Len(order)
    THEN NoFamily
    ELSE IF IsMatch(BLK_REGEX[order[i]], device_name)
         THEN order[i]
         ELSE FirstMatching(order, device_name, i + 1)

linux_blk_name(order, device_name) == FirstMatching(order, device_name, 1)

\* linux_part_prefix_and_part_num
linux_part_prefix_and_part_num(blk_dev, part_name) ==
    LET re == BLK_PART_REGEX[blk_dev]
        caps == Captures(re, part_name)
    IN  IF ~caps.ok
        THEN [ok |-> FALSE, prefix |-> "", part_num |-> ""]
        ELSE [ok |-> TRUE,
              prefix |-> Group(re, caps, part_name, "prefix"),
              part_num |-> Group(re, caps, part_name, "part_num")]

(***************************************************************************)
(* Numbers and their decimal text.                                         *)
(***************************************************************************)
DigitVal(ch) ==
    CASE ch = "0" -> 0 [] ch = "1" -> 1 [] ch = "2" -> 2 [] ch = "3" -> 3
      [] ch = "4" -> 4 [] ch = "5" -> 5 [] ch = "6" -> 6 [] ch = "7" -> 7
      [] ch = "8" -> 8 [] ch = "9" -> 9

DigitChar(d) ==
    CASE d = 0 -> "0" [] d = 1 -> "1" [] d = 2 -> "2" [] d = 3 -> "3"
      [] d = 4 -> "4" [] d = 5 -> "5" [] d = 6 -> "6" [] d = 7 -> "7"
      [] d = 8 -> "8" [] d = 9 -> "9"

\* usize::MAX of a 64-bit target, as text: it is beyond TLC's integers, so
\* the overflow test of str::parse::<usize> compares decimal strings.
UsizeMaxText == "18446744073709551615"

RECURSIVE StripZeros(_)
StripZeros(s) ==
    IF Len(s) > 1 /\ CharAt(s, 1) = "0" THEN StripZeros(Tail(s)) ELSE s

\* a <= b for digit strings without leading zeros
RECURSIVE LexLeq(_, _)
LexLeq(a, b) ==
    IF a = "" THEN TRUE
    ELSE IF DigitVal(CharAt(a, 1)) # DigitVal(CharAt(b, 1))
         THEN DigitVal(CharAt(a, 1)) < DigitVal(CharAt(b, 1))
         ELSE LexLeq(Tail(a), Tail(b))

DecLeq(a, b) == Len(a) < Len(b) \/ (Len(a) = Len(b) /\ LexLeq(a, b))

RECURSIVE DigitsValue(_, _)
DigitsValue(s, acc) ==
    IF s = "" THEN acc ELSE DigitsValue(Tail(s), 10 * acc + DigitVal(CharAt(s, 1)))

\* Faulty variant: a number beyond usize::MAX is taken for 0.
ParseUsizeWrapping(s) ==
    IF DecLeq(StripZeros(s), UsizeMaxText)
    THEN [ok |-> TRUE, val |-> DigitsValue(s, 0)]
    ELSE [ok |-> TRUE, val |-> 0]

\* str::parse::<usize> of a non-empty run of digits
ParseUsize(s) ==
    IF DecLeq(StripZeros(s), UsizeMaxText)
    THEN [ok |-> TRUE, val |-> DigitsValue(s, 0)]
    ELSE [ok |-> FALSE, val |-> 0]

\* Display of a usize
RECURSIVE Dec(_)
Dec(n) == IF n < 10 THEN DigitChar(n) ELSE Dec(n \div 10) \o DigitChar(n % 10)

(***************************************************************************)
(* partition/mod.rs and partition/parse.rs                                 *)
(***************************************************************************)
\* (?P<full_path>/dev/(\w+(?P<part_num>\d+)))\s+:\s+(:?start=\s+)
\* (?P<start_block>\d+)[,](?P<rest>.*)
PathAtoms == Lit("/dev/") \o <<Plus(In(WordChar)), Plus(In(Digit))>>

StartAtoms ==
    <<Plus(In(Space))>> \o Lit(":") \o <<Plus(In(Space)), Opt(In({":"}))>>
    \o Lit("start=") \o <<Plus(In(Space)), Plus(In(Digit))>>

SFDISK_PARTITION_LINE_PATTERN ==
    [atoms |-> PathAtoms \o StartAtoms \o <<One(In({","})), Star(Dot)>>,
     groups |-> [full_path |-> <<1, Len(PathAtoms)>>,
                 part_num |-> <<Len(PathAtoms), Len(PathAtoms)>>,
                 start_block |-> <<Len(PathAtoms) + Len(StartAtoms),
                                   Len(PathAtoms) + Len(StartAtoms)>>,
                 rest |-> <<Len(PathAtoms) + Len(StartAtoms) + 2,
                            Len(PathAtoms) + Len(StartAtoms) + 2>>]]

is_sfdisk_partition_line(line) == IsMatch(SFDISK_PARTITION_LINE_PATTERN, line)

\* str::split_whitespace
RECURSIVE SplitWhitespace(_)
SplitWhitespace(s) ==
    LET skip == RunLen(In(Space), s, 1)
        word == RunLen(NotIn(Space), s, skip + 1)
    IN  IF word = 0
        THEN <<>>
        ELSE <<SubSeq(s, skip + 1, skip + word)>>
             \o SplitWhitespace(SubSeq(s, skip + word + 1, Len(s)))

NoPartition == [designation |-> 0, start_block |-> 0, name |-> "", extras |-> <<>>]

\* parse_sfdisk_partition_line: a Partition, or the error text.
parse_sfdisk_partition_line(line) ==
    LET re == SFDISK_PARTITION_LINE_PATTERN
        caps == Captures(re, line)
        part_num == Group(re, caps, line, "part_num")
        start_block == Group(re, caps, line, "start_block")
        num == ParseUsize(part_num)
        start == ParseUsize(start_block)
    IN  IF ~caps.ok
        THEN [ok |-> FALSE, err |-> "bad line", part |-> NoPartition]
        ELSE IF ~num.ok
        THEN [ok |-> FALSE, err |-> "error parsing partition number", part |-> NoPartition]
        ELSE IF ~start.ok
        THEN [ok |-> FALSE, err |-> "error parsing partition start block",
              part |-> NoPartition]
        ELSE [ok |-> TRUE, err |-> "",
              part |-> [designation |-> num.val,
                        start_block |-> start.val,
                        name |-> Group(re, caps, line, "full_path"),
                        extras |-> SplitWhitespace(Group(re, caps, line, "rest"))]]

\* Vec<String>::join
RECURSIVE Join(_, _)
Join(strs, sep) ==
    IF strs = <<>> THEN ""
    ELSE IF Len(strs) = 1 THEN strs[1]
    ELSE strs[1] \o sep \o Join(Tail(strs), sep)

\* Faulty variant: no blank between "start=" and the number.
DisplayTight(part) ==
    part.name \o " : start=" \o Dec(part.start_block) \o ", " \o Join(part.extras, " ")

\* impl Display for Partition
Display(part) ==
    part.name \o " : start= " \o Dec(part.start_block) \o ", " \o Join(part.extras, " ")

\* Faulty variant: the 'p' of the prefix is lost with the old number.
redesignateWithoutInfix(part, blk_dev, new_designation) ==
    LET split == linux_part_prefix_and_part_num(blk_dev, part.name)
        stem == IF split.ok /\ CharAt(split.prefix, Len(split.prefix)) = "p"
                THEN SubSeq(split.prefix, 1, Len(split.prefix) - 1)
                ELSE split.prefix
    IN  IF ~split.ok
        THEN [ok |-> FALSE, part |-> part]
        ELSE [ok |-> TRUE,
              part |-> [part EXCEPT !.name = stem \o Dec(new_designation),
                                    !.designation = new_designation]]

\* Faulty variant: the partition is made anew, and its extras are not carried over.
redesignateDroppingExtras(part, blk_dev, new_designation) ==
    LET split == linux_part_prefix_and_part_num(blk_dev, part.name)
    IN  IF ~split.ok
        THEN [ok |-> FALSE, part |-> part]
        ELSE [ok |-> TRUE,
              part |-> [NoPartition EXCEPT !.name = split.prefix \o Dec(new_designation),
                                           !.designation = new_designation,
                                           !.start_block = part.start_block]]

\* Faulty variant: the new number is written after the old name.
redesignateAppending(part, blk_dev, new_designation) ==
    LET split == linux_part_prefix_and_part_num(blk_dev, part.name)
    IN  IF ~split.ok
        THEN [ok |-> FALSE, part |-> part]
        ELSE [ok |-> TRUE,
              part |-> [part EXCEPT !.name = part.name \o Dec(new_designation),
                                    !.designation = new_designation]]

\* Partition::redesignate
redesignate(part, blk_dev, new_designation) ==
    LET split == linux_part_prefix_and_part_num(blk_dev, part.name)
    IN  IF ~split.ok
        THEN [ok |-> FALSE, part |-> part]
        ELSE [ok |-> TRUE,
              part |-> [part EXCEPT !.name = split.prefix \o Dec(new_designation),
                                    !.designation = new_designation]]

(***************************************************************************)
(* disk/mod.rs                                                             *)
(***************************************************************************)
\* (?:device:\s+)(?P<device_name>(?:/dev/).*)
DeviceAtoms == Lit("device:") \o <<Plus(In(Space))>>

\* Faulty variant: the group device_name begins after "/dev/".
SFDISK_DEVICE_NAME_PATTERN_AfterDev ==
    [atoms |-> DeviceAtoms \o Lit("/dev/") \o <<Star(Dot)>>,
     groups |-> [device_name |-> <<Len(DeviceAtoms) + 6, Len(DeviceAtoms) + 6>>]]

SFDISK_DEVICE_NAME_PATTERN ==
    [atoms |-> DeviceAtoms \o Lit("/dev/") \o <<Star(Dot)>>,
     groups |-> [device_name |-> <<Len(DeviceAtoms) + 1, Len(DeviceAtoms) + 6>>]]

is_sfdisk_device_name_line(s) == IsMatch(SFDISK_DEVICE_NAME_PATTERN, s)

parse_sfdisk_device_name_line(s) ==
    LET re == SFDISK_DEVICE_NAME_PATTERN
        caps == Captures(re, s)
    IN  IF ~caps.ok
        THEN [ok |-> FALSE, name |-> ""]
        ELSE [ok |-> TRUE, name |-> Group(re, caps, s, "device_name")]

\* str::lines: the text cut at each "\n", a "\r" before it dropped, and no
\* empty last line after a final "\n".
RECURSIVE IndexOf(_, _, _)
IndexOf(s, ch, i) ==
    IF i > Len(s) THEN 0 ELSE IF CharAt(s, i) = ch THEN i ELSE IndexOf(s, ch, i + 1)

StripCR(s) ==
    IF Len(s) > 0 /\ CharAt(s, Len(s)) = "\r" THEN SubSeq(s, 1, Len(s) - 1) ELSE s

RECURSIVE Lines(_)
Lines(text) ==
    IF text = ""
    THEN <<>>
    ELSE LET i == IndexOf(text, "\n", 1)
         IN  IF i = 0
             THEN <<text>>
             ELSE <<StripCR(SubSeq(text, 1, i - 1))>>
                  \o Lines(SubSeq(text, i + 1, Len(text)))

NoError == [kind |-> "", line |-> 0, detail |-> ""]

Error(kind, line, detail) == [kind |-> kind, line |-> line, detail |-> detail]

\* The locals of parse_sfdisk_full_disk before the first line.
ScanStart ==
    [device_name |-> <<>>, header_lines |-> <<>>, partitions |-> <<>>, err |-> NoError]

\* One turn of the loop of parse_sfdisk_full_disk, on line number c + 1.
\* Faulty variant: a device path once remembered is kept.
ScanLineKeepingFirstDevice(st, line, c) ==
    IF is_sfdisk_partition_line(line)
    THEN LET r == parse_sfdisk_partition_line(line)
         IN  IF r.ok
             THEN [st EXCEPT !.partitions = Append(@, r.part)]
             ELSE [st EXCEPT !.err = Error("error parsing partition on line", c + 1, r.err)]
    ELSE IF is_sfdisk_device_name_line(line) /\ st.device_name = <<>>
    THEN [st EXCEPT !.device_name = <<parse_sfdisk_device_name_line(line).name>>,
                    !.header_lines = Append(@, line)]
    ELSE [st EXCEPT !.header_lines = Append(@, line)]

\* Faulty variant: a device line is remembered and not kept as a header line.
ScanLineDroppingDeviceLine(st, line, c) ==
    IF is_sfdisk_partition_line(line)
    THEN LET r == parse_sfdisk_partition_line(line)
         IN  IF r.ok
             THEN [st EXCEPT !.partitions = Append(@, r.part)]
             ELSE [st EXCEPT !.err = Error("error parsing partition on line", c + 1, r.err)]
    ELSE IF is_sfdisk_device_name_line(line)
    THEN [st EXCEPT !.device_name = <<parse_sfdisk_device_name_line(line).name>>]
    ELSE [st EXCEPT !.header_lines = Append(@, line)]

ScanLine(st, line, c) ==
    IF is_sfdisk_partition_line(line)
    THEN LET r == parse_sfdisk_partition_line(line)
         IN  IF r.ok
             THEN [st EXCEPT !.partitions = Append(@, r.part)]
             ELSE [st EXCEPT !.err = Error("error parsing partition on line", c + 1, r.err)]
    ELSE IF is_sfdisk_device_name_line(line)
    THEN LET d == parse_sfdisk_device_name_line(line)
         IN  IF d.ok
             THEN [st EXCEPT !.device_name = <<d.name>>,
                             !.header_lines = Append(@, line)]
             ELSE [st EXCEPT !.err = Error("error parsing device name on line", c + 1, "")]
    ELSE [st EXCEPT !.header_lines = Append(@, line)]

\* Disk::default()
NoDisk ==
    [name |-> "", linux_block_device |-> "SCSI", header_lines |-> <<>>,
     partitions |-> <<>>]

\* Faulty variant: a path of no family gets a disk of the default family.
DiskNewUnclassified(order, disk_name, header_lines, partitions) ==
    LET dev == linux_blk_name(order, disk_name)
    IN  [ok |-> TRUE, err |-> NoError,
         disk |-> [name |-> disk_name,
                   linux_block_device |-> IF dev # NoFamily THEN dev ELSE "SCSI",
                   header_lines |-> header_lines, partitions |-> partitions]]

\* Disk::new, under the iteration order of BLK_REGEX
DiskNew(order, disk_name, header_lines, partitions) ==
    LET dev == linux_blk_name(order, disk_name)
    IN  IF dev # NoFamily
        THEN [ok |-> TRUE, err |-> NoError,
              disk |-> [name |-> disk_name, linux_block_device |-> dev,
                        header_lines |-> header_lines, partitions |-> partitions]]
        ELSE [ok |-> FALSE, disk |-> NoDisk,
              err |-> Error("error creating new disk", 0, disk_name)]

\* The end of parse_sfdisk_full_disk, after the loop.
ScanFinish(order, st) ==
    IF st.device_name = <<>>
    THEN [ok |-> FALSE, disk |-> NoDisk, err |-> Error("missing device_name", 0, "")]
    ELSE IF st.header_lines = <<>>
    THEN [ok |-> FALSE, disk |-> NoDisk, err |-> Error("missing header lines", 0, "")]
    ELSE DiskNew(order, st.device_name[1], st.header_lines, st.partitions)

\* parse_sfdisk_full_disk as a function of the text
RECURSIVE ScanFrom(_, _, _)
ScanFrom(st, lines, c) ==
    IF c >= Len(lines) \/ st.err # NoError
    THEN st
    ELSE ScanFrom(ScanLine(st, lines[c + 1], c), lines, c + 1)

parse_sfdisk_full_disk(order, prog_input) ==
    LET st == ScanFrom(ScanStart, Lines(prog_input), 0)
    IN  IF st.err # NoError
        THEN [ok |-> FALSE, disk |-> NoDisk, err |-> st.err]
        ELSE ScanFinish(order, st)

\* slice::sort_by on start_block: a stable sort.  Each element is put
\* after the elements already placed whose key is not greater.
\* Faulty variant: an element goes before the placed elements of the same key.
RECURSIVE InsertByStartBeforeEqual(_, _)
InsertByStartBeforeEqual(sorted, part) ==
    IF sorted = <<>> \/ sorted[Len(sorted)].start_block < part.start_block
    THEN Append(sorted, part)
    ELSE Append(InsertByStartBeforeEqual(SubSeq(sorted, 1, Len(sorted) - 1), part),
                sorted[Len(sorted)])

RECURSIVE InsertByStart(_, _)
InsertByStart(sorted, part) ==
    IF sorted = <<>> \/ sorted[Len(sorted)].start_block <= part.start_block
    THEN Append(sorted, part)
    ELSE Append(InsertByStart(SubSeq(sorted, 1, Len(sorted) - 1), part),
                sorted[Len(sorted)])

RECURSIVE SortFrom(_, _, _)
SortFrom(sorted, parts, i) ==
    IF i > Len(parts) THEN sorted
    ELSE SortFrom(InsertByStart(sorted, parts[i]), parts, i + 1)

\* Faulty variant: the vector is left in the order of the dump.
SortByStartBlockSkipped(parts) == parts

SortByStartBlock(parts) == SortFrom(<<>>, parts, 1)

\* The loop of Disk::rearrange from the partition at (1-based) position i:
\* it stops at the first partition it cannot rename and leaves the vector
\* as it is then.
\* Faulty variant: a partition that cannot be renamed is passed over.
RECURSIVE RedesignateFromSkippingBad(_, _, _)
RedesignateFromSkippingBad(parts, blk_dev, i) ==
    IF i > Len(parts)
    THEN [ok |-> TRUE, partitions |-> parts, err |-> NoError]
    ELSE LET r == redesignate(parts[i], blk_dev, i)
         IN  IF Captures(BLK_REGEX[blk_dev], parts[i].name).ok /\ r.ok
             THEN RedesignateFromSkippingBad([parts EXCEPT ![i] = r.part], blk_dev, i + 1)
             ELSE RedesignateFromSkippingBad(parts, blk_dev, i + 1)

\* Faulty variant: the loop goes on after a partition it cannot rename, and
\* the error returned is the last one.
RECURSIVE RedesignateFromToTheEnd(_, _, _)
RedesignateFromToTheEnd(parts, blk_dev, i) ==
    IF i > Len(parts)
    THEN [ok |-> TRUE, partitions |-> parts, err |-> NoError]
    ELSE LET r == redesignate(parts[i], blk_dev, i)
             bare == Captures(BLK_REGEX[blk_dev], parts[i].name).ok
             rest == RedesignateFromToTheEnd(
                         IF bare /\ r.ok THEN [parts EXCEPT ![i] = r.part] ELSE parts,
                         blk_dev, i + 1)
         IN  IF (bare /\ r.ok) \/ ~rest.ok
             THEN rest
             ELSE [ok |-> FALSE, partitions |-> rest.partitions,
                   err |-> Error(IF bare THEN "error redesignating partition"
                                 ELSE "failed to get partition number for",
                                 i, parts[i].name)]

RECURSIVE RedesignateFrom(_, _, _)
RedesignateFrom(parts, blk_dev, i) ==
    IF i > Len(parts)
    THEN [ok |-> TRUE, partitions |-> parts, err |-> NoError]
    ELSE IF ~Captures(BLK_REGEX[blk_dev], parts[i].name).ok
    THEN [ok |-> FALSE, partitions |-> parts,
          err |-> Error("failed to get partition number for", i, parts[i].name)]
    ELSE LET r == redesignate(parts[i], blk_dev, i)
         IN  IF ~r.ok
             THEN [ok |-> FALSE, partitions |-> parts,
                   err |-> Error("error redesignating partition", i, parts[i].name)]
             ELSE RedesignateFrom([parts EXCEPT ![i] = r.part], blk_dev, i + 1)

\* Disk::rearrange
rearrange(d) ==
    RedesignateFrom(SortByStartBlock(d.partitions), d.linux_block_device, 1)

(***************************************************************************)
(* main.rs                                                                 *)
(***************************************************************************)
RECURSIVE PrintLines(_)
PrintLines(lines) ==
    IF lines = <<>> THEN "" ELSE lines[1] \o "\n" \o PrintLines(Tail(lines))

\* Faulty variant: the partitions are written before the header lines.
print_diskPartitionsFirst(d) ==
    PrintLines([i \in 1..Len(d.partitions) |-> Display(d.partitions[i])])
    \o PrintLines(d.header_lines)

\* print_disk: what it writes to standard output
print_disk(d) ==
    PrintLines(d.header_lines)
    \o PrintLines([i \in 1..Len(d.partitions) |-> Display(d.partitions[i])])

(***************************************************************************)
(* The dumps the program is run on.                                        *)
(***************************************************************************)
\* Lines of which every dump of at most MaxLines lines is tried.
LinePool ==
    {"device: /dev/sda",
     "label: gpt",
     "/dev/sda1 : start= 2048, size= 4, type=L",
     "/dev/sda12 : start=  1969,  size=8",
     "/dev/sda3 : start= 2048, uuid=A",
     "/dev/vdb3 : start= 7, size= 1"}

PoolDumps ==
    UNION {{PrintLines(ls) : ls \in [1..n -> LinePool]} : n \in 0..MaxLines}

\* An NVMe disk with eleven partitions, listed out of order.
DumpNvme ==
    PrintLines(<<"label: gpt", "device: /dev/nvme0n1", "unit: sectors",
                 "/dev/nvme0n1p1 : start= 2048, size= 1, type=A",
                 "/dev/nvme0n1p2 : start= 900, size= 2",
                 "/dev/nvme0n1p3 : start= 800, size= 3",
                 "/dev/nvme0n1p4 : start= 700, size= 4",
                 "/dev/nvme0n1p5 : start= 600, size= 5",
                 "/dev/nvme0n1p6 : start= 500, size= 6",
                 "/dev/nvme0n1p7 : start= 400, size= 7",
                 "/dev/nvme0n1p8 : start= 300, size= 8",
                 "/dev/nvme0n1p9 : start= 200, size= 9",
                 "/dev/nvme0n1p10 : start= 100, size= 10",
                 "/dev/nvme0n1p11 : start= 50, size= 11, name=\"b\"">>)

\* The disk of test_rearrange, as a dump.
DumpScsi ==
    PrintLines(<<"device: /dev/sda",
                 "/dev/sda1 : start= 2048, size= 1",
                 "/dev/sda4 : start= 2069, size= 4",
                 "/dev/sda2 : start= 2022, size= 2",
                 "/dev/sda3 : start= 1969, size= 3">>)

\* A disk with two partitions at the same start block, listed after a
\* partition that starts later.
DumpTie ==
    PrintLines(<<"label: gpt", "device: /dev/sdc",
                 "/dev/sdc1 : start= 4096, size= 1",
                 "/dev/sdc2 : start= 2048, size= 2, name=first",
                 "/dev/sdc3 : start= 2048, size= 2, name=second",
                 "/dev/sdc4 : start= 34, size= 4">>)

\* The partitions of test_rename_part, each on its disk.
DumpMmc ==
    PrintLines(<<"device: /dev/mmcblk11", "unit: sectors",
                 "/dev/mmcblk11p2 : start= 2048, size= 7">>)

DumpNvme75 ==
    PrintLines(<<"device: /dev/nvme0n75",
                 "/dev/nvme0n75p2 : start= 2048, size= 7",
                 "/dev/nvme0n75p1 : start= 4096, size= 9">>)

\* A virtio disk; CR LF line ends, no line end after the last line, a
\* partition line with text before the path, ":start=" and leading zeros.
DumpVirt ==
    "label: dos\r\ndevice: /dev/vdz\r\n"
    \o "/dev/vdz2 : start= 0004096, size= 2, bootable\r\n"
    \o "  /dev/vdz7 : :start=\t64,type=83"

\* Dumps of one device line, for the paths of the tests of linux_blk_name
\* and for a path in which the patterns of two families occur.
DevicePaths ==
    {"/dev/sda", "/dev/sdc", "/dev/vda", "/dev/mmcblk2", "/dev/nvme17n1",
     "/dev/sda1000", "/dev/sdc1", "/dev/vda1", "/dev/mmcblk10p20", "/dev/nvme0n1p1",
     "/dev/nvme1", "/dev/sd1", "/dev/disk/by-id/sdcard-mmcblk0"}

DeviceDumps == {"device: " \o path \o "\n" : path \in DevicePaths}

\* Disks whose second partition, in start order, is named without the 'p'
\* of its family.
DumpMmcNoP ==
    PrintLines(<<"device: /dev/mmcblk1",
                 "/dev/mmcblk12 : start= 200, size= 2",
                 "/dev/mmcblk1p4 : start= 100, size= 1">>)

DumpNvmeNoP ==
    PrintLines(<<"device: /dev/nvme0n1",
                 "/dev/nvme0n1p3 : start= 64, size= 1",
                 "/dev/nvme0n12 : start= 128, size= 2">>)

\* A SCSI disk with a partition of another family between its own, the
\* partitions listed in descending start order.
DumpMixed ==
    PrintLines(<<"device: /dev/sda", "label: gpt",
                 "/dev/sda2 : start= 300, size= 1",
                 "/dev/sda7 : start= 250, size= 4",
                 "/dev/vdb3 : start= 200, size= 2",
                 "/dev/sda5 : start= 100, size= 3">>)

\* A disk with a partition whose path goes on after the number, and a
\* partition line with nothing after the comma.
DumpTrailing ==
    PrintLines(<<"label: dos", "device: /dev/sdc", "",
                 "/dev/sdc5_old7 : start= 90, size= 1",
                 "/dev/sdc2 : start= 40,">>)

\* A dump with two device lines, of different disks.
DumpTwoDevices ==
    PrintLines(<<"device: /dev/vdb", "label: gpt", "device: /dev/sda",
                 "/dev/sda1 : start= 50, size= 1">>)

\* A dump with a line that lacks ": start=", and two partition lines whose
\* start block exceeds usize::MAX, the second by one.
DumpOverflow ==
    PrintLines(<<"device: /dev/sda",
                 "/dev/sda1 2048 bad",
                 "/dev/sda1 : start= 50, size= 1",
                 "/dev/sda2 : start= 99999999999999999999, size= 2",
                 "/dev/sda3 : start= 18446744073709551616, size= 3">>)

Fixtures ==
    {DumpNvme, DumpScsi, DumpTie, DumpMmc, DumpNvme75, DumpVirt, DumpMmcNoP,
     DumpNvmeNoP, DumpMixed, DumpTrailing, DumpTwoDevices, DumpOverflow}

Inputs == PoolDumps \cup DeviceDumps \cup Fixtures

(***************************************************************************)
(* The program.                                                            *)
(***************************************************************************)
VARIABLES
    input,          \* the text read from standard input
    lines,          \* prog_input.lines(), collected
    pc,             \* where the run is: "scan", "parsed", "rearranged",
                    \* "printed", "parse_err", "rearrange_err"
    c,              \* lines of input scanned so far
    device_name,    \* locals of parse_sfdisk_full_disk
    header_lines,
    partitions,
    blk_order,      \* iteration order of BLK_REGEX, <<>> until first used
    disk,           \* the Disk, once made
    err,            \* the error returned, if any
    output          \* the text written to standard output

vars ==
    <<input, lines, pc, c, device_name, header_lines, partitions, blk_order, disk, err, output>>

Init ==
    /\ input \in Inputs
    /\ lines = Lines(input)
    /\ pc = "scan"
    /\ c = 0
    /\ device_name = <<>>
    /\ header_lines = <<>>
    /\ partitions = <<>>
    /\ blk_order = <<>>
    /\ disk = NoDisk
    /\ err = NoError
    /\ output = ""

Locals ==
    [device_name |-> device_name, header_lines |-> header_lines,
     partitions |-> partitions, err |-> err]

\* One turn of the loop of parse_sfdisk_full_disk.
ScanStep ==
    /\ pc = "scan"
    /\ c < Len(lines)
    /\ LET st == ScanLine(Locals, lines[c + 1], c)
       IN  /\ device_name' = st.device_name
           /\ header_lines' = st.header_lines
           /\ partitions' = st.partitions
           /\ err' = st.err
           /\ pc' = IF st.err = NoError THEN "scan" ELSE "parse_err"
    /\ c' = c + 1
    /\ UNCHANGED <<input, lines, blk_order, disk, output>>

\* The checks after the loop, and Disk::new.  BLK_REGEX is built when
\* linux_blk_name first reads it, and keeps the iteration order it gets then.
FinishParse ==
    /\ pc = "scan"
    /\ c = Len(lines)
    /\ \/ /\ device_name = <<>> \/ header_lines = <<>>
          /\ err' = ScanFinish(blk_order, Locals).err
          /\ pc' = "parse_err"
          /\ UNCHANGED <<blk_order, disk>>
       \/ /\ device_name # <<>> /\ header_lines # <<>>
          /\ \E order \in IterationOrders :
                LET r == ScanFinish(order, Locals)
                IN  /\ blk_order' = order
                    /\ disk' = r.disk
                    /\ err' = r.err
                    /\ pc' = IF r.ok THEN "parsed" ELSE "parse_err"
    /\ UNCHANGED <<input, lines, c, device_name, header_lines, partitions, output>>

\* Disk::rearrange, on the parsed disk or again on the rearranged one.
Rearrange ==
    /\ pc \in {"parsed", "rearranged"}
    /\ LET r == rearrange(disk)
       IN  /\ disk' = [disk EXCEPT !.partitions = r.partitions]
           /\ err' = r.err
           /\ pc' = IF r.ok THEN "rearranged" ELSE "rearrange_err"
    /\ UNCHANGED <<input, lines, c, device_name, header_lines, partitions, blk_order, output>>

\* print_disk
PrintDisk ==
    /\ pc = "rearranged"
    /\ output' = print_disk(disk)
    /\ pc' = "printed"
    /\ UNCHANGED <<input, lines, c, device_name, header_lines, partitions, blk_order, disk, err>>

Next == ScanStep \/ FinishParse \/ Rearrange \/ PrintDisk

Spec == Init /\ [][Next]_vars

(***************************************************************************)
(* Vocabulary of the properties, written on the strings themselves and     *)
(* not with the matcher above.                                             *)
(***************************************************************************)
IsDigits(s) == s # "" /\ \A i \in 1..Len(s) : CharAt(s, i) \in Digit

StartsWith(s, pre) == Len(s) >= Len(pre) /\ SubSeq(s, 1, Len(pre)) = pre

\* Number of digits that end s
TrailingDigits(s) ==
    LET nondigit == {i \in 1..Len(s) : CharAt(s, i) \notin Digit}
        last == IF nondigit = {} THEN 0
                ELSE CHOOSE i \in nondigit : \A j \in nondigit : j <= i
    IN  Len(s) - last

WithoutTrailingDigits(s) == SubSeq(s, 1, Len(s) - TrailingDigits(s))

\* /dev/sd<letter> and /dev/vd<letter>, then digits
LetterDiskShape(s, stem) ==
    /\ Len(s) >= Len(stem) + 1
    /\ StartsWith(s, stem)
    /\ CharAt(s, Len(stem) + 1) \in Lower
    /\ Len(s) = Len(stem) + 1 \/ IsDigits(SubSeq(s, Len(stem) + 2, Len(s)))

\* /dev/mmcblk<digits>, then p<digits>
MmcShape(s) ==
    /\ StartsWith(s, "/dev/mmcblk")
    /\ \/ IsDigits(SubSeq(s, 12, Len(s)))
       \/ \E i \in 13..Len(s) - 1 :
             /\ IsDigits(SubSeq(s, 12, i - 1))
             /\ CharAt(s, i) = "p"
             /\ IsDigits(SubSeq(s, i + 1, Len(s)))

\* /dev/nvme<digits>n<digits>, then p<digits>
NvmeDiskShape(s) ==
    /\ StartsWith(s, "/dev/nvme")
    /\ \E i \in 11..Len(s) - 1 :
          /\ IsDigits(SubSeq(s, 10, i - 1))
          /\ CharAt(s, i) = "n"
          /\ IsDigits(SubSeq(s, i + 1, Len(s)))

NvmeShape(s) ==
    \/ NvmeDiskShape(s)
    \/ \E i \in 13..Len(s) - 1 :
          /\ NvmeDiskShape(SubSeq(s, 1, i - 1))
          /\ CharAt(s, i) = "p"
          /\ IsDigits(SubSeq(s, i + 1, Len(s)))

\* The family of a path that is a disk of the family or a partition of one
ShapeFamilies(s) ==
    {f \in LinuxBlockDevice :
        \/ f = "SCSI" /\ LetterDiskShape(s, "/dev/sd")
        \/ f = "VIRT" /\ LetterDiskShape(s, "/dev/vd")
        \/ f = "MMCBLK" /\ MmcShape(s)
        \/ f = "NVME" /\ NvmeShape(s)}

\* s has the text lit at position i; s has a character of set at position i
HasAt(s, i, lit) == i + Len(lit) - 1 <= Len(s) /\ SubSeq(s, i, i + Len(lit) - 1) = lit

ClassAt(s, i, set) == i <= Len(s) /\ CharAt(s, i) \in set

\* The families whose bare-name pattern occurs somewhere in s
Occurring(s) ==
    {f \in LinuxBlockDevice :
        \E i \in 1..Len(s) :
            \/ f = "SCSI" /\ HasAt(s, i, "sd") /\ ClassAt(s, i + 2, Lower)
            \/ f = "VIRT" /\ HasAt(s, i, "vd") /\ ClassAt(s, i + 2, Lower)
            \/ f = "MMCBLK" /\ HasAt(s, i, "mmcblk") /\ ClassAt(s, i + 6, Digit)
            \/ /\ f = "NVME"
               /\ HasAt(s, i, "nvme")
               /\ \E j \in i + 5..Len(s) - 1 :
                     /\ IsDigits(SubSeq(s, i + 4, j - 1))
                     /\ CharAt(s, j) = "n"
                     /\ CharAt(s, j + 1) \in Digit}

\* The infix between a disk's name and the number of its partitions
Infix(blk_dev) == IF blk_dev \in {"MMCBLK", "NVME"} THEN "p" ELSE ""

\* name is the path of a partition of disk d: d.name, the infix, digits
UnderDisk(d, name) ==
    LET stem == d.name \o Infix(d.linux_block_device)
    IN  StartsWith(name, stem) /\ IsDigits(SubSeq(name, Len(stem) + 1, Len(name)))

Range(f) == {f[i] : i \in DOMAIN f}

\* What the scan of the whole input collects
Scanned == ScanFrom(ScanStart, lines, 0)

\* The disk exists
Created == pc \in {"parsed", "rearranged", "rearrange_err", "printed"}

\* A call of rearrange that returns Ok
RearrangeOk == pc \in {"parsed", "rearranged"} /\ pc' = "rearranged"

\* A call of rearrange, whatever it returns
RearrangeCall == pc \in {"parsed", "rearranged"} /\ pc' \in {"rearranged", "rearrange_err"}

IsSortedByStart(parts) ==
    \A i \in 1..Len(parts) - 1 : parts[i].start_block <= parts[i + 1].start_block

(***************************************************************************)
(* The properties.                                                         *)
(***************************************************************************)

\* C1: after a rearrange that returned Ok the partitions are in
\* non-decreasing start_block order and the partition at position i (from 1)
\* has designation i, so the designations are 1..n without gap or duplicate.
C1_SortedAndNumbered ==
    pc \in {"rearranged", "printed"} =>
        /\ IsSortedByStart(disk.partitions)
        /\ \A i \in 1..Len(disk.partitions) : disk.partitions[i].designation = i

\* C1 witness: a rearranged disk of three or more partitions whose dump
\* listed them out of order and under other numbers.
C1_Witness ==
    /\ pc = "rearranged"
    /\ Len(disk.partitions) >= 3
    /\ ~IsSortedByStart(Scanned.partitions)
    /\ \E i \in 1..Len(disk.partitions) : Scanned.partitions[i].designation # i

\* C2: a rearrange that returns Ok has renamed every partition whose name
\* had its family's shape to that name without its final number (so with
\* the 'p' for MMCBLK and NVME, and ending in the drive letter for SCSI and
\* VIRT) followed by the decimal text of its position, and has set its
\* designation to the position; so the partitions of a disk that were all
\* named after the disk are named disk.name, the infix, position.
C2_Redesignate ==
    [][RearrangeOk =>
        LET old == SortByStartBlock(disk.partitions)
            new == disk'.partitions
            dev == disk.linux_block_device
        IN  /\ \A i \in 1..Len(new) :
                  /\ new[i].designation = i
                  /\ dev \in ShapeFamilies(old[i].name)
                         /\ TrailingDigits(old[i].name) < Len(old[i].name) =>
                        /\ new[i].name = WithoutTrailingDigits(old[i].name) \o Dec(i)
                        /\ LET at == Len(new[i].name) - Len(Dec(i))
                           IN  IF dev \in {"MMCBLK", "NVME"}
                               THEN /\ CharAt(new[i].name, at) = "p"
                                    /\ CharAt(new[i].name, at - 1) \in Digit
                               ELSE /\ at = Len("/dev/sda")
                                    /\ CharAt(new[i].name, at) \in Lower
                  /\ UnderDisk(disk, old[i].name) =>
                        new[i].name = disk.name \o Infix(dev) \o Dec(i)
            /\ input = DumpMmc => new[1].name = "/dev/mmcblk11p1"
            /\ input = DumpNvme75 =>
                  /\ old[1].name = "/dev/nvme0n75p2"
                  /\ new[1].name = "/dev/nvme0n75p1"
    ]_vars

\* C2 witness: the rearranged /dev/mmcblk11, its partition p2 renamed p1.
C2_Witness ==
    /\ pc = "rearranged"
    /\ input = DumpMmc
    /\ Scanned.partitions[1].name = "/dev/mmcblk11p2"
    /\ disk.partitions[1].name = "/dev/mmcblk11p1"

\* The (start_block, extras) pairs of parts, as a bag
StartAndExtras(parts) ==
    LET key(q) == <<q.start_block, q.extras>>
    IN  [k \in {key(parts[i]) : i \in 1..Len(parts)} |->
            Cardinality({i \in 1..Len(parts) : key(parts[i]) = k})]

\* C3: a call of rearrange, whatever it returns, leaves the bag of
\* (start_block, extras) pairs of the partitions as it was, and leaves the
\* disk's name, family and header_lines alone.
C3_Frame ==
    [][RearrangeCall =>
        (/\ StartAndExtras(disk'.partitions) = StartAndExtras(disk.partitions)
         /\ disk'.name = disk.name
         /\ disk'.linux_block_device = disk.linux_block_device
         /\ disk'.header_lines = disk.header_lines)
    ]_vars

\* C3 witness: a rearranged disk whose partitions were reordered and
\* renamed, and carry extras.
C3_Witness ==
    /\ pc = "rearranged"
    /\ Len(disk.partitions) >= 2
    /\ \A i \in 1..Len(disk.partitions) :
          /\ disk.partitions[i].extras # <<>>
          /\ disk.partitions[i].start_block # Scanned.partitions[i].start_block

\* C4: the text print_disk writes for a parsed disk parses, in the same
\* process, to a Disk equal to it in name, family, header_lines and every
\* partition's name, designation, start_block and extras.
C4_RoundTrip ==
    pc = "parsed" =>
        parse_sfdisk_full_disk(blk_order, print_disk(disk))
            = [ok |-> TRUE, err |-> NoError, disk |-> disk]

\* C4 witness: a parsed disk with header lines and two or more partitions,
\* whose printed text is not the text it was parsed from.
C4_Witness ==
    /\ pc = "parsed"
    /\ Len(disk.header_lines) >= 2
    /\ Len(disk.partitions) >= 2
    /\ print_disk(disk) # input

\* The dump that has the header lines of the input and lists its
\* partitions in ascending start order under the paths numbered 1..n
PrettyDump ==
    LET sorted == SortByStartBlock(Scanned.partitions)
        line(i) == disk.name \o Infix(disk.linux_block_device) \o Dec(i)
                   \o " : start= " \o Dec(sorted[i].start_block) \o ", "
                   \o Join(sorted[i].extras, " ")
    IN  PrintLines(Scanned.header_lines)
        \o PrintLines([i \in 1..Len(sorted) |-> line(i)])

\* C5: for a dump whose partitions are all named after its disk, the Disk
\* got by parsing and rearranging equals the Disk parsed from the pretty
\* dump of the same partitions, designations included, whatever their number.
C5_EqualsPretty ==
    pc = "rearranged" /\ (\A q \in Range(Scanned.partitions) : UnderDisk(disk, q.name)) =>
        parse_sfdisk_full_disk(blk_order, PrettyDump)
            = [ok |-> TRUE, err |-> NoError, disk |-> disk]

\* C6: on a disk that rearrange has returned Ok for, rearrange returns Ok
\* again and leaves every partition (order, name, designation, start_block,
\* extras) as it is; the disk being the same, so it is for every later call.
C6_Idempotent ==
    pc = "rearranged" =>
        LET again == rearrange(disk)
        IN  again.ok /\ again.partitions = disk.partitions

\* C6 witness: a rearranged disk of two or more partitions that the first
\* call did change.
C6_Witness ==
    /\ pc = "rearranged"
    /\ Len(disk.partitions) >= 2
    /\ disk.partitions # Scanned.partitions

\* The extras of the partitions of parts that start at block s, in order
RECURSIVE ExtrasAt(_, _)
ExtrasAt(parts, s) ==
    IF parts = <<>> THEN <<>>
    ELSE (IF parts[1].start_block = s THEN <<parts[1].extras>> ELSE <<>>)
         \o ExtrasAt(Tail(parts), s)

\* C7: a rearrange that returns Ok keeps the partitions of equal start_block
\* in the order they had, and numbers them in that order.
C7_Stable ==
    [][RearrangeOk =>
        \A q \in Range(disk.partitions) :
            /\ ExtrasAt(disk'.partitions, q.start_block)
                   = ExtrasAt(disk.partitions, q.start_block)
            /\ \A i, j \in 1..Len(disk'.partitions) :
                   i < j => disk'.partitions[i].designation < disk'.partitions[j].designation
    ]_vars

\* C7 witness: a rearranged disk with two partitions of the same
\* start_block and different extras, which the dump listed with another
\* partition between or before them.
C7_Witness ==
    /\ pc = "rearranged"
    /\ Len(disk.partitions) >= 3
    /\ ~IsSortedByStart(Scanned.partitions)
    /\ \E i \in 1..Len(disk.partitions) - 1 :
          /\ disk.partitions[i].start_block = disk.partitions[i + 1].start_block
          /\ disk.partitions[i].extras # disk.partitions[i + 1].extras

\* C8: every partition parsed has as designation the value of the whole run
\* of digits that ends its path, the number linux_part_prefix_and_part_num
\* gives for that path under the disk's family.
C8_WholeNumber ==
    /\ \A q \in Range(partitions) :
          q.designation
              = DigitsValue(SubSeq(q.name, Len(q.name) - TrailingDigits(q.name) + 1,
                                   Len(q.name)), 0)
    /\ pc = "parsed" =>
          \A q \in Range(disk.partitions) :
              LET split == linux_part_prefix_and_part_num(disk.linux_block_device, q.name)
              IN  split.ok => q.designation = DigitsValue(split.part_num, 0)

\* C9: a disk is made under the family of its path's shape, for the path of
\* a disk and of a partition of each family, and no disk is made exactly
\* when no family's bare-name pattern occurs in the device path.
C9_Classify ==
    /\ Created =>
          /\ ShapeFamilies(disk.name) \subseteq {disk.linux_block_device}
          /\ disk.linux_block_device \in Occurring(disk.name)
          /\ disk.name \notin {"/dev/nvme1", "/dev/sd1"}
          /\ disk.name \in {"/dev/sda", "/dev/sda1000", "/dev/sdc1"}
                => disk.linux_block_device = "SCSI"
          /\ disk.name \in {"/dev/vda", "/dev/vda1"} => disk.linux_block_device = "VIRT"
          /\ disk.name \in {"/dev/mmcblk2", "/dev/mmcblk10p20"}
                => disk.linux_block_device = "MMCBLK"
          /\ disk.name \in {"/dev/nvme17n1", "/dev/nvme0n1p1"}
                => disk.linux_block_device = "NVME"
    /\ pc = "parse_err" /\ err.kind = "error creating new disk" =>
          Occurring(device_name[1]) = {}

\* C9 witness: the disk made for /dev/mmcblk10p20, an MMCBLK one.
C9_Witness ==
    /\ Created
    /\ disk.name = "/dev/mmcblk10p20"
    /\ disk.linux_block_device = "MMCBLK"

\* C10: at most one family's bare-name pattern occurs in the path of a
\* disk, and the disk's family is the first of SCSI, VIRT, MMCBLK, NVME whose
\* pattern occurs in it, in every run.
C10_FixedOrder ==
    Created =>
        /\ Cardinality(Occurring(disk.name)) <= 1
        /\ disk.linux_block_device
               = linux_blk_name(<<"SCSI", "VIRT", "MMCBLK", "NVME">>, disk.name)

\* s is the path of a partition of family f: the disk's path, the 'p' of
\* MMCBLK and NVME, and the partition's number
PartitionShape(f, s) ==
    \/ f = "SCSI" /\ LetterDiskShape(s, "/dev/sd") /\ Len(s) > Len("/dev/sda")
    \/ f = "VIRT" /\ LetterDiskShape(s, "/dev/vd") /\ Len(s) > Len("/dev/vda")
    \/ /\ f = "MMCBLK"
       /\ StartsWith(s, "/dev/mmcblk")
       /\ \E i \in 13..Len(s) - 1 :
             /\ IsDigits(SubSeq(s, 12, i - 1))
             /\ CharAt(s, i) = "p"
             /\ IsDigits(SubSeq(s, i + 1, Len(s)))
    \/ /\ f = "NVME"
       /\ \E i \in 13..Len(s) - 1 :
             /\ NvmeDiskShape(SubSeq(s, 1, i - 1))
             /\ CharAt(s, i) = "p"
             /\ IsDigits(SubSeq(s, i + 1, Len(s)))

\* The parts s[i..j] of s that are partition paths of family f
PartOccurrences(f, s) ==
    {o \in {i \in 1..Len(s) : HasAt(s, i, "/dev/")}
            \X {j \in 1..Len(s) : CharAt(s, j) \in Digit} :
        o[1] < o[2] /\ PartitionShape(f, SubSeq(s, o[1], o[2]))}

\* The pairs of a family and a path to split: during the scan the paths
\* scanned so far, under every family; after rearrange the paths it has left,
\* under the family of the disk (the other states hold no other paths)
SplitsInState ==
    IF pc = "scan"
    THEN LinuxBlockDevice \X ({q.name : q \in Range(partitions)} \cup Range(device_name))
    ELSE IF pc \in {"rearranged", "rearrange_err"}
    THEN {disk.linux_block_device} \X {q.name : q \in Range(disk.partitions)}
    ELSE {}

DeviceLineText(line) ==
    \E i \in 1..Len(line) :
        /\ HasAt(line, i, "device:")
        /\ \E j \in i + 8..Len(line) :
              /\ HasAt(line, j, "/dev/")
              /\ \A k \in i + 7..j - 1 : CharAt(line, k) \in Space

\* The least position of s from k on whose character is not in set
SkipWhile(s, k, set) ==
    LET stops == {m \in k..Len(s) : CharAt(s, m) \notin set}
    IN  IF stops = {} THEN Len(s) + 1 ELSE CHOOSE m \in stops : \A n \in stops : m <= n

\* The fields of a partition line whose path begins at position i of line:
\* "/dev/", two or more word characters of which the last is a digit,
\* blanks, ':', blanks, ':' or not, "start=", blanks, digits, ','
PartitionFields(line, i) ==
    LET word == SkipWhile(line, i + 5, WordChar)
        colon == SkipWhile(line, word, Space)
        key == SkipWhile(line, colon + 1, Space)
        start == IF HasAt(line, key, ":") THEN key + 1 ELSE key
        num == SkipWhile(line, start + 6, Space)
        comma == SkipWhile(line, num, Digit)
    IN  [ok |-> /\ HasAt(line, i, "/dev/")
                /\ word >= i + 7
                /\ CharAt(line, word - 1) \in Digit
                /\ colon > word
                /\ HasAt(line, colon, ":")
                /\ key > colon + 1
                /\ HasAt(line, start, "start=")
                /\ num > start + 6
                /\ comma > num
                /\ HasAt(line, comma, ","),
         name |-> SubSeq(line, i, word - 1),
         digits |-> SubSeq(line, num, comma - 1),
         rest |-> SubSeq(line, comma + 1, Len(line))]

\* The positions of line at which a path may begin
PathStarts(line) == {i \in 1..Len(line) : HasAt(line, i, "/dev/")}

PartitionText(line) == \E i \in PathStarts(line) : PartitionFields(line, i).ok

\* The path a device line names: from the first "/dev/" that follows
\* "device:" and white space, to the end of the line
DevicePathOf(line) ==
    LET at == {j \in 1..Len(line) :
                  /\ HasAt(line, j, "/dev/")
                  /\ \E i \in 1..j - 8 :
                        /\ HasAt(line, i, "device:")
                        /\ \A k \in i + 7..j - 1 : CharAt(line, k) \in Space}
    IN  SubSeq(line, CHOOSE j \in at : \A k \in at : j <= k, Len(line))

\* The numbers of the device lines among the first k lines: the lines with
\* a device path that are not partition lines
DeviceLines(k) ==
    {i \in 1..k : DeviceLineText(lines[i]) /\ ~PartitionText(lines[i])}

\* C12: the parse returns a Disk only if the text has a device line and the
\* remembered device path is classified into one of the four families; an
\* error for a missing device name or an unknown disk is given for that
\* reason and leaves no Disk, and the empty text ends in the former.
C12_DiskOnlyIf ==
    /\ pc = "parsed" =>
          /\ \E i \in 1..Len(lines) : DeviceLineText(lines[i])
          /\ device_name = <<disk.name>>
          /\ disk.linux_block_device \in LinuxBlockDevice \cap Occurring(disk.name)
    /\ ~Created => disk = NoDisk
    /\ pc = "parse_err" =>
          /\ err.kind = "missing device_name" => device_name = <<>> /\ DeviceLines(c) = {}
          /\ err.kind = "error creating new disk" =>
                device_name # <<>> /\ Occurring(device_name[1]) = {}
    /\ input = "" /\ pc # "scan" => pc = "parse_err" /\ err.kind = "missing device_name"

\* C12 witness: the parse of a dump whose device line names /dev/nvme1, a
\* path of no family, has ended in an error, without a Disk.
C12_Witness ==
    /\ pc = "parse_err"
    /\ device_name = <<"/dev/nvme1">>
    /\ err.kind = "error creating new disk"
    /\ disk = NoDisk

\* C13 (as claimed): the Disk has its name from the first device line of the
\* dump; later device lines do not change the remembered path.
C13_FirstDeviceLine ==
    Created =>
        \E i \in DeviceLines(Len(lines)) :
            /\ \A j \in DeviceLines(Len(lines)) : i <= j
            /\ disk.name = DevicePathOf(lines[i])

\* C13 (amended): the path remembered during the scan is that of the last
\* device line scanned so far, so the Disk has its name, and its family, from
\* the last device line of the dump.
C13_LastDeviceLine ==
    /\ pc = "scan" =>
          IF DeviceLines(c) = {}
          THEN device_name = <<>>
          ELSE \E i \in DeviceLines(c) :
                  /\ \A j \in DeviceLines(c) : j <= i
                  /\ device_name = <<DevicePathOf(lines[i])>>
    /\ pc = "parsed" =>
          \E i \in DeviceLines(Len(lines)) :
              /\ \A j \in DeviceLines(Len(lines)) : j <= i
              /\ disk.name = DevicePathOf(lines[i])
              /\ disk.linux_block_device \in Occurring(DevicePathOf(lines[i]))

\* C13 witness: the disk of a dump whose first device line names /dev/vdb
\* and whose second names /dev/sda is /dev/sda, a SCSI disk.
C13_Witness ==
    /\ pc = "parsed"
    /\ DeviceLines(Len(lines)) = {1, 3}
    /\ DevicePathOf(lines[1]) = "/dev/vdb"
    /\ disk.name = "/dev/sda"
    /\ disk.linux_block_device = "SCSI"

\* The path of a partition line: that of its first reading as one
PathOfLine(line) ==
    LET at == {i \in PathStarts(line) : PartitionFields(line, i).ok}
    IN  PartitionFields(line, CHOOSE i \in at : \A k \in at : i <= k).name

\* C14: while the scan goes on without error, after k lines header_lines is
\* the sequence of the lines among the first k that are not partition
\* lines, verbatim and in their order (the device lines included), and
\* partitions has one Partition for each of the other lines, in their order;
\* so every line went to one of the two and their lengths add up to k.  The
\* Disk made at the end holds these two sequences.
C14_LineScan ==
    /\ pc = "scan" =>
          LET seen == SubSeq(lines, 1, c)
              heads == SelectSeq(seen, LAMBDA l : ~PartitionText(l))
              parts == SelectSeq(seen, LAMBDA l : PartitionText(l))
          IN  /\ Len(header_lines) + Len(partitions) = c
              /\ header_lines = heads
              /\ Len(partitions) = Len(parts)
              /\ \A k \in 1..Len(parts) : partitions[k].name = PathOfLine(parts[k])
    /\ pc = "parsed" =>
          /\ disk.header_lines = header_lines
          /\ disk.partitions = partitions
          /\ Len(disk.header_lines) + Len(disk.partitions) = Len(lines)

\* C14 witness: three lines scanned, a device line between two partition
\* lines: one header line and two partitions, in the order of the dump.
C14_Witness ==
    /\ pc = "scan"
    /\ c = 3
    /\ PartitionText(lines[1]) /\ DeviceLineText(lines[2]) /\ PartitionText(lines[3])
    /\ header_lines = <<lines[2]>>
    /\ Len(partitions) = 2
    /\ partitions[1].name = "/dev/sda12" /\ partitions[2].name = "/dev/sda1"

\* C15: a call of rearrange returns Ok exactly when the name of every
\* partition has a part of the shape of the disk's family; otherwise the
\* error names the first such partition in start_block order, the partitions
\* before it have been renumbered, and it and those after it are as the sort
\* left them.
C15_FirstBadName ==
    [][RearrangeCall =>
        LET sorted == SortByStartBlock(disk.partitions)
            dev == disk.linux_block_device
            bad == {i \in 1..Len(sorted) : PartOccurrences(dev, sorted[i].name) = {}}
        IN  /\ pc' = "rearranged" <=> bad = {}
            /\ bad = {} => err' = NoError
            /\ bad # {} =>
                  LET first == CHOOSE i \in bad : \A j \in bad : i <= j
                  IN  /\ err'.detail = sorted[first].name
                      /\ err'.line = first
                      /\ err'.kind \in {"failed to get partition number for",
                                         "error redesignating partition"}
                      /\ \A j \in 1..first - 1 : disk'.partitions[j].designation = j
                      /\ \A j \in first..Len(sorted) : disk'.partitions[j] = sorted[j]
    ]_vars

\* C15 witness: rearrange has failed on /dev/vdb3, the second of the four
\* partitions of a SCSI disk in start order: the first is renamed, the third
\* and the fourth keep their names.
C15_Witness ==
    /\ pc = "rearrange_err"
    /\ input = DumpMixed
    /\ err = Error("failed to get partition number for", 2, "/dev/vdb3")
    /\ disk.partitions[1].name = "/dev/sda1"
    /\ disk.partitions[3].name = "/dev/sda7"
    /\ disk.partitions[4].name = "/dev/sda2"

\* C16: a call of rearrange that returns an error leaves the partitions of
\* the disk in the order and with the names and designations they had
\* before the call.
C16_AllOrNothing ==
    [][RearrangeCall /\ pc' = "rearrange_err" => disk'.partitions = disk.partitions]_vars

\* C17 (as claimed): in every Disk the parse returns the name of every
\* partition matches the partition-path pattern of the disk's family, so a
\* dump with a device line of one family and a partition line of another
\* gives no Disk.
C17_NamesMatchAfterParse ==
    Created =>
        \A q \in Range(disk.partitions) :
            PartOccurrences(disk.linux_block_device, q.name) # {}

\* C17 (amended): in every Disk that rearrange has returned Ok for, the name
\* of every partition is a partition path of the disk's family; the parse
\* does not compare the names with the family, and on a parsed Disk with a
\* name that does not match, rearrange returns an error.
C17_NamesMatchAfterRearrange ==
    /\ pc \in {"rearranged", "printed"} =>
          \A q \in Range(disk.partitions) :
              PartitionShape(disk.linux_block_device, q.name)
    /\ pc = "parsed"
          /\ (\E q \in Range(disk.partitions) :
                 PartOccurrences(disk.linux_block_device, q.name) = {})
          => ~rearrange(disk).ok
    /\ pc = "rearrange_err" =>
          \E q \in Range(disk.partitions) :
              PartOccurrences(disk.linux_block_device, q.name) = {}

\* C17 witness: a disk rearranged from a dump in which a partition path went
\* on after its number; its partitions are named /dev/sdc1 and /dev/sdc2.
C17_Witness ==
    /\ pc = "rearranged"
    /\ \E q \in Range(Scanned.partitions) :
          q.name = "/dev/sdc5_old7" /\ ~PartitionShape(disk.linux_block_device, q.name)
    /\ disk.partitions[1].name = "/dev/sdc1"
    /\ disk.partitions[2].name = "/dev/sdc2"

\* The positions of the device lines in a sequence of header lines
DeviceLinesIn(heads) == {i \in 1..Len(heads) : DeviceLineText(heads[i])}

\* C18 (as claimed): in every Disk the parse returns header_lines is not
\* empty and has exactly one device line, whose path is the disk's name.
C18_ExactlyOneDeviceLine ==
    Created =>
        /\ disk.header_lines # <<>>
        /\ \E i \in DeviceLinesIn(disk.header_lines) :
              /\ DeviceLinesIn(disk.header_lines) = {i}
              /\ DevicePathOf(disk.header_lines[i]) = disk.name

\* C18 (amended): in every Disk the parse returns header_lines is not empty
\* and has one or more device lines, the last of which has the disk's name
\* as its path; header_lines is not empty once a device path is remembered,
\* so the parse never fails for missing header lines.
C18_LastDeviceLineNamesDisk ==
    /\ pc = "parsed" =>
          /\ disk.header_lines # <<>>
          /\ \E i \in DeviceLinesIn(disk.header_lines) :
                /\ \A j \in DeviceLinesIn(disk.header_lines) : j <= i
                /\ DevicePathOf(disk.header_lines[i]) = disk.name
    /\ device_name # <<>> => header_lines # <<>>
    /\ err.kind # "missing header lines"

\* C18 witness: a parsed Disk whose header_lines has two device lines, of
\* different paths, the disk having the name of the second.
C18_Witness ==
    /\ pc = "parsed"
    /\ DeviceLinesIn(disk.header_lines) = {1, 3}
    /\ DevicePathOf(disk.header_lines[1]) # disk.name
    /\ DevicePathOf(disk.header_lines[3]) = disk.name

\* The sum of the lengths of the strings of strs
RECURSIVE TotalLen(_)
TotalLen(strs) == IF strs = <<>> THEN 0 ELSE Len(strs[1]) + TotalLen(Tail(strs))

\* line is the rendering of partition q: its name, " : start= ", its start
\* block in decimal, ", " and its extras with one blank between them
RenderingOf(line, q) ==
    LET f == PartitionFields(line, 1)
    IN  /\ f.ok
        /\ f.name = q.name
        /\ HasAt(line, Len(q.name) + 1, " : start= ")
        /\ HasAt(line, Len(q.name) + 11, f.digits \o ", ")
        /\ DigitsValue(f.digits, 0) = q.start_block
        /\ Len(f.digits) = 1 \/ CharAt(f.digits, 1) # "0"
        /\ SplitWhitespace(f.rest) = q.extras
        /\ Len(f.rest) = TotalLen(q.extras) + (IF q.extras = <<>> THEN 1 ELSE Len(q.extras))

\* C19: the text printed has the header lines of the disk, verbatim and in
\* their order, and after them one line for each partition, in the order
\* of partitions, that is the partition's rendering; every one of these
\* lines is a partition line for is_sfdisk_partition_line, also that of a
\* partition without extras.
C19_Rendering ==
    pc = "printed" =>
        LET out == Lines(output)
            h == Len(disk.header_lines)
        IN  /\ Len(out) = h + Len(disk.partitions)
            /\ output = "" \/ CharAt(output, Len(output)) = "\n"
            /\ \A i \in 1..h : out[i] = disk.header_lines[i]
            /\ \A k \in 1..Len(disk.partitions) :
                  /\ RenderingOf(out[h + k], disk.partitions[k])
                  /\ is_sfdisk_partition_line(out[h + k])

\* C19 witness: the text printed for a disk with three header lines, one of
\* them empty, and two partitions, the first without extras.
C19_Witness ==
    /\ pc = "printed"
    /\ output = "label: dos\ndevice: /dev/sdc\n\n"
                 \o "/dev/sdc1 : start= 40, \n/dev/sdc2 : start= 90, size= 1\n"
    /\ disk.partitions[1].extras = <<>>

\* The digits d are the decimal text of a number up to 2^64 - 1
FitsUsize(d) ==
    LET from == SkipWhile(d, 1, {"0"})
        sig == SubSeq(d, from, Len(d))
        most == "18446744073709551615"
    IN  \/ Len(sig) < Len(most)
        \/ /\ Len(sig) = Len(most)
           /\ \A k \in 1..Len(most) :
                 DigitVal(CharAt(sig, k)) > DigitVal(CharAt(most, k)) =>
                     \E j \in 1..k - 1 : DigitVal(CharAt(sig, j)) < DigitVal(CharAt(most, j))

\* The fields of line read as a partition line, from its first reading
FieldsOf(line) ==
    LET at == {i \in PathStarts(line) : PartitionFields(line, i).ok}
    IN  PartitionFields(line, CHOOSE i \in at : \A k \in at : i <= k)

\* The numbers of the lines among the first k that are partition lines
\* with a start block beyond usize
Overflowing(k) ==
    {i \in 1..k : PartitionText(lines[i]) /\ ~FitsUsize(FieldsOf(lines[i]).digits)}

\* C20: parse_sfdisk_partition_line gives, for the line just scanned, a
\* Partition with the path, the start block and the extras of the line when
\* the line is a partition line whose start block fits usize, and otherwise
\* an error and no Partition ("/dev/sda1 2048 bad" is such a line); and the
\* parse of a dump ends with the error of a partition line exactly at the
\* first line whose start block does not fit, with the number of that line,
\* counted from 1, and without a Disk.
C20_PartitionOrError ==
    /\ pc \in {"scan", "parse_err"} /\ c >= 1 =>
          LET line == lines[c]
              r == parse_sfdisk_partition_line(line)
          IN  /\ r.ok <=> PartitionText(line) /\ FitsUsize(FieldsOf(line).digits)
              /\ ~r.ok => r.part = NoPartition /\ r.err # ""
              /\ r.ok =>
                    /\ r.err = ""
                    /\ r.part.name = FieldsOf(line).name
                    /\ r.part.start_block = DigitsValue(FieldsOf(line).digits, 0)
                    /\ r.part.extras = SplitWhitespace(FieldsOf(line).rest)
                    /\ partitions # <<>> /\ partitions[Len(partitions)] = r.part
              /\ line = "/dev/sda1 2048 bad" => ~r.ok /\ r.err = "bad line"
    /\ pc \in {"scan", "parse_err"} /\ Overflowing(c) # {} =>
          /\ pc = "parse_err"
          /\ err.kind = "error parsing partition on line"
          /\ err.detail = "error parsing partition start block"
          /\ err.line = c
          /\ Overflowing(c) = {c}
          /\ disk = NoDisk
    /\ pc = "parse_err" /\ err.kind = "error parsing partition on line" => Overflowing(c) = {c}

\* C20 witness: the parse has stopped at line 4 of a dump, whose start block
\* is beyond usize, with one partition read and another line of that kind
\* still ahead.
C20_Witness ==
    /\ pc = "parse_err"
    /\ err = Error("error parsing partition on line", 4, "error parsing partition start block")
    /\ lines[2] = "/dev/sda1 2048 bad"
    /\ Len(partitions) = 1
    /\ Overflowing(Len(lines)) = {4, 5}

====
